---- MODULE Spec2Model ----
(***************************************************************************)
(* Progression and challenge engine of sistema-exp-fitness (src/app.py):   *)
(* experience and leveling, inactivity penalty, streak, challenge          *)
(* derivation and claiming, over a persisted user document and the         *)
(* activities collection.                                                  *)
(*                                                                         *)
(* Numbers.  EXP values are Python floats in the source.  The model keeps  *)
(* them in fixed point, in units of 1/Scale EXP (Scale = 1000): every      *)
(* product of the gain rule (x1.5, x1.2, x1.3, x1.1, x0.9 of an integer    *)
(* duration) is exact in that unit; the penalty product exp*0.05*days is   *)
(* rounded down to the unit.                                               *)
(* Dates are proleptic Gregorian ordinals (datetime.date.toordinal()), and *)
(* year, month, weekday and isocalendar are computed from the ordinal the  *)
(* way datetime computes them.                                             *)
(***************************************************************************)
EXTENDS Integers, Sequences, FiniteSets, TLC

VARIABLES
    today,        \* datetime.utcnow().date(), as an ordinal
    user,         \* the persisted document users/<id> of the requesting user
    activities,   \* the persisted collection 'activities' (set of documents)
    nextId,       \* next fresh document id of the collection
    resp,         \* outcome of the last request (flash message / JSON status)
    faults,       \* number of storage calls made to raise so far
    out,          \* what the last request told its caller about levels: the
                  \* level-up flash messages and the JSON body of the API
    probe,        \* inputs and outputs of the pure-function specifications
    inflight,     \* the requests being served concurrently: for each, the
                  \* handler's position and its local variables
    limiter       \* the clock time.time() and the module's _rate_limit_store

vars == <<today, user, activities, nextId, resp, faults, out, probe, inflight, limiter>>

\* no request is being served concurrently
NoInflight == <<>>

\* the rate limiter before its first call
NoLimiter == <<>>

-----------------------------------------------------------------------------
(* Bounds of the model *)

\* number of day changes of the clock explored by Spec
MaxDay == 2
\* number of activity documents ever inserted in one behaviour of Spec
MaxActs == 1
\* number of storage calls (Firestore reads and writes) that raise in one behaviour
MaxFaults == 1

Scale == 10 * 100

\* Python's None: for a class key; for a date text; for a weight (None and 0 are
\* both falsy, and every test of a weight in the source is a truth test)
None == "None"
NoDate == <<>>
NoWeight == 0
Me == "u1"
\* a response with no level-up message and no JSON body
NoOut == [flashes |-> <<>>, json |-> <<>>]

-----------------------------------------------------------------------------
(* datetime.date arithmetic *)

IsLeap(y) == (y % 4 = 0) /\ ((y % 100 # 0) \/ (y % 400 = 0))

DaysBeforeYear(y) ==
    LET p == y - 1 IN p * 365 + (p \div 4) - (p \div 100) + (p \div 400)

DaysInMonth(y, m) ==
    IF m = 2 THEN (IF IsLeap(y) THEN 29 ELSE 28)
    ELSE IF m \in {4, 6, 9, 11} THEN 30 ELSE 31

RECURSIVE DaysBeforeMonth(_, _)
DaysBeforeMonth(y, m) ==
    IF m = 1 THEN 0 ELSE DaysBeforeMonth(y, m - 1) + DaysInMonth(y, m - 1)

Ymd2Ord(y, m, d) == DaysBeforeYear(y) + DaysBeforeMonth(y, m) + d

\* date.fromordinal: the (year, month, day) of an ordinal
Ord2Ymd(ord) ==
    LET n0   == ord - 1
        n400 == n0 \div 146097
        r400 == n0 % 146097
        n100 == r400 \div 36524
        r100 == r400 % 36524
        n4   == r100 \div 1461
        r4   == r100 % 1461
        n1   == r4 \div 365
        n    == r4 % 365
        y    == n400 * 400 + 1 + n100 * 100 + n4 * 4 + n1
    IN  IF n1 = 4 \/ n100 = 4
        THEN [year |-> y - 1, month |-> 12, day |-> 31]
        ELSE LET m0   == (n + 50) \div 32
                 pre0 == DaysBeforeMonth(y, m0)
                 m    == IF pre0 > n THEN m0 - 1 ELSE m0
                 pre  == IF pre0 > n THEN pre0 - DaysInMonth(y, m0 - 1) ELSE pre0
             IN  [year |-> y, month |-> m, day |-> n - pre + 1]

Year(ord) == Ord2Ymd(ord).year
Month(ord) == Ord2Ymd(ord).month

\* date.weekday(): Monday is 0
Weekday(ord) == (ord + 6) % 7

\* _isoweek1monday(year)
IsoWeek1Monday(y) ==
    LET firstday     == Ymd2Ord(y, 1, 1)
        firstweekday == (firstday + 6) % 7
        week1monday  == firstday - firstweekday
    IN  IF firstweekday > 3 THEN week1monday + 7 ELSE week1monday

\* Python's floor division, for a possibly negative dividend
FloorDiv(a, b) == IF a >= 0 THEN a \div b ELSE -(((-a) + b - 1) \div b)

\* date.isocalendar(): [year, week]
IsoCalendar(ord) ==
    LET y    == Year(ord)
        w    == FloorDiv(ord - IsoWeek1Monday(y), 7)
    IN  IF w < 0
        THEN [year |-> y - 1, week |-> FloorDiv(ord - IsoWeek1Monday(y - 1), 7) + 1]
        ELSE IF w >= 52 /\ ord >= IsoWeek1Monday(y + 1)
             THEN [year |-> y + 1, week |-> 1]
             ELSE [year |-> y, week |-> w + 1]

\* date.isoformat(): the text YYYY-MM-DD, kept as its three numbers
IsoFormat(ord) == LET d == Ord2Ymd(ord) IN <<d.year, d.month, d.day>>

-----------------------------------------------------------------------------
(* Small helpers *)

Min(a, b) == IF a <= b THEN a ELSE b
\* the second argument, with no floor
Max_NoFloor(a, b) == b

Max(a, b) == IF a >= b THEN a ELSE b
Range(s) == {s[i] : i \in DOMAIN s}

RECURSIVE SumOver(_, _)
\* sum(field of a for a in acts)
SumOver(acts, field) ==
    IF acts = {} THEN 0
    ELSE LET a == CHOOSE x \in acts : TRUE
         IN  a[field] + SumOver(acts \ {a}, field)

RECURSIVE ISqrtIn(_, _, _)
\* the largest r in lo..hi with r*r <= n (lo*lo <= n assumed)
ISqrtIn(n, lo, hi) ==
    IF lo >= hi THEN lo
    ELSE LET mid == (lo + hi + 1) \div 2
         IN  IF mid * mid <= n THEN ISqrtIn(n, mid, hi) ELSE ISqrtIn(n, lo, mid - 1)

-----------------------------------------------------------------------------
(* Constants of the program *)

VALID_INTENSITIES == {"low", "medium", "high"}

\* PLAYER_CLASSES: specialty of each class; every class has bonus 0.3
Specialty(cls) ==
    CASE cls = "guerrero"   -> {"Pesas", "Calistenia"}
      [] cls = "corredor"   -> {"Cardio", "HIIT"}
      [] cls = "monje"      -> {"Yoga", "Artes Marciales"}
      [] cls = "nadador"    -> {"Natacion", "Remo"}
      [] cls = "ciclista"   -> {"Ciclismo", "Senderismo"}
      [] cls = "deportista" -> {"Futbol", "Baloncesto", "Tenis", "Padel"}
      [] cls = "luchador"   -> {"Boxeo", "Crossfit", "Escalada"}
      [] OTHER              -> {}

WEEKLY_CHALLENGE_TEMPLATES == <<
    [key |-> "w_3sessions",      target |-> 3,   type |-> "activity_count",       reward_exp |-> 100],
    [key |-> "w_150min",         target |-> 150, type |-> "total_minutes",        reward_exp |-> 150],
    [key |-> "w_high_intensity", target |-> 1,   type |-> "high_intensity_count", reward_exp |-> 75],
    [key |-> "w_variety",        target |-> 3,   type |-> "unique_types",         reward_exp |-> 120] >>

MONTHLY_CHALLENGE_TEMPLATES == <<
    [key |-> "m_20sessions", target |-> 20,   type |-> "activity_count", reward_exp |-> 300],
    [key |-> "m_1000min",    target |-> 1000, type |-> "total_minutes",  reward_exp |-> 500],
    [key |-> "m_streak7",    target |-> 7,    type |-> "streak",         reward_exp |-> 400],
    [key |-> "m_5000exp",    target |-> 5000, type |-> "total_exp",      reward_exp |-> 350] >>

-----------------------------------------------------------------------------
(* Experience and leveling *)

\* a threshold that is never positive
calculate_exp_for_next_level_Zero(current_level) == 0

\* the threshold with the exponent 1.5 taken for 1: 100 * level
calculate_exp_for_next_level_Linear(current_level) == 100 * current_level

\* math.floor(100 * (current_level ** 1.5)), in EXP: the integer square root of
\* 10000 * level^3 (levels up to 59 keep the squares below 2^31)
calculate_exp_for_next_level(current_level) ==
    LET n == 10000 * current_level * current_level * current_level
    IN  ISqrtIn(n, 0, Min(100 * current_level * current_level, 46340))

\* multipliers.get(intensity, 1), in tenths
Multiplier10(intensity) ==
    CASE intensity = "low"    -> 10
      [] intensity = "medium" -> 15
      [] intensity = "high"   -> 20
      [] OTHER                -> 10

\* calculate_exp_gain with the class bonus left out
calculate_exp_gain_NoBonus(duration, intensity, has_evidence, u, exercise_type) ==
    LET base == duration * Multiplier10(intensity) * (Scale \div 10)
    IN  IF has_evidence THEN (base * 12) \div 10 ELSE base

\* calculate_exp_gain, in 1/Scale EXP
calculate_exp_gain(duration, intensity, has_evidence, u, exercise_type) ==
    LET base == duration * Multiplier10(intensity) * (Scale \div 10)
        ev   == IF has_evidence THEN (base * 12) \div 10 ELSE base
    IN  IF u.player_class # None /\ exercise_type \in Specialty(u.player_class)
        THEN (ev * 13) \div 10
        ELSE ev

\* the modifier with the two signs of wd swapped
WeightModifier_Swapped(exp_gained, user_weight, weight) ==
    IF user_weight - weight < 0 THEN (exp_gained * 11) \div 10
    ELSE IF user_weight - weight > 0 THEN (exp_gained * 9) \div 10
    ELSE exp_gained

\* the weight-change modifier of the submission flows: wd = user weight - new weight
WeightModifier(exp_gained, user_weight, weight) ==
    IF user_weight - weight > 0 THEN (exp_gained * 11) \div 10
    ELSE IF user_weight - weight < 0 THEN (exp_gained * 9) \div 10
    ELSE exp_gained

\* the loop run as an "if": at most one threshold is taken off
LevelLoop_Once(level, exp, ups) ==
    LET need == calculate_exp_for_next_level(level) * Scale
    IN  IF exp >= need
        THEN [level |-> level + 1, exp |-> exp - need, ups |-> Append(ups, level + 1)]
        ELSE [level |-> level, exp |-> exp, ups |-> ups]

RECURSIVE LevelLoop(_, _, _)
\* while exp >= calculate_exp_for_next_level(level): exp -= ...; level += 1
\* ups is the list of levels reached (one flash message each)
LevelLoop(level, exp, ups) ==
    LET need == calculate_exp_for_next_level(level) * Scale
    IN  IF exp >= need
        THEN LevelLoop(level + 1, exp - need, Append(ups, level + 1))
        ELSE [level |-> level, exp |-> exp, ups |-> ups]

\* update_fields with the plausible slip of a partial write: the claimed list is
\* left out of the update
update_fields_DropsClaimed(u, kwargs) ==
    [f \in DOMAIN u |->
        IF f \in DOMAIN kwargs \ {"claimed_challenges"} THEN kwargs[f] ELSE u[f]]

\* User.update_fields: one partial update of the user document
update_fields(u, kwargs) ==
    [f \in DOMAIN u |-> IF f \in DOMAIN kwargs THEN kwargs[f] ELSE u[f]]

-----------------------------------------------------------------------------
(* Activities of a user, streak *)

\* db.collection('activities').where('user_id', '==', user_id)
ActivitiesOf(acts, user_id) == {a \in acts : a.user_id = user_id}

ActivityDates(acts, user_id) == {a.date : a \in ActivitiesOf(acts, user_id)}

SetMax(S) == CHOOSE x \in S : \A y \in S : y <= x

RECURSIVE StreakFrom(_, _)
\* while current_date in activity_dates: streak += 1; current_date -= 1 day
StreakFrom(dates, current_date) ==
    IF current_date \in dates THEN 1 + StreakFrom(dates, current_date - 1) ELSE 0

\* calculate_streak without the day of grace: a last activity of yesterday
\* already gives 0
calculate_streak_NoGrace(acts, user_id, t, ok) ==
    LET activity_dates == ActivityDates(acts, user_id)
    IN  IF ~ok \/ activity_dates = {} THEN 0
        ELSE LET last_date == SetMax(activity_dates)
             IN  IF t - last_date > 0 THEN 0
                 ELSE StreakFrom(activity_dates, t)

\* calculate_streak, given the outcome of the query (ok = FALSE: it raised)
calculate_streak(acts, user_id, t, ok) ==
    LET activity_dates == ActivityDates(acts, user_id)
    IN  IF ~ok \/ activity_dates = {} THEN 0
        ELSE LET last_date == SetMax(activity_dates)
             IN  IF t - last_date > 1 THEN 0
                 ELSE StreakFrom(activity_dates,
                                 IF t \in activity_dates THEN t ELSE last_date)

\* get_activities_in_range (get_all_activities returns [] when the query raises)
get_activities_in_range(acts, user_id, start_date, end_date, ok) ==
    IF ok THEN {a \in ActivitiesOf(acts, user_id) :
                    start_date <= a.date /\ a.date <= end_date}
    ELSE {}

-----------------------------------------------------------------------------
(* Challenge derivation: get_current_challenges *)

\* cid = f"{tmpl['key']}_{today.year}_w{week_num}", kept as the parts the text
\* is made of; week_num = today.isocalendar()[1]
WeeklyId(key, year, week_num) == <<key, year, "w", week_num>>

\* cid = f"{tmpl['key']}_{month_key}", month_key = f"{today.year}_{today.month}"
MonthlyId(key, year, month) == <<key, year, month>>

\* progress(tmpl, acts); total_exp is a sum of EXP values, in 1/Scale EXP
Progress(tmpl, acts, streak) ==
    CASE tmpl.type = "activity_count"       -> Cardinality(acts)
      [] tmpl.type = "total_minutes"        -> SumOver(acts, "duration")
      [] tmpl.type = "high_intensity_count" -> Cardinality({a \in acts : a.intensity = "high"})
      [] tmpl.type = "unique_types"         -> Cardinality({a.exercise_type : a \in acts})
      [] tmpl.type = "streak"               -> streak
      [] tmpl.type = "total_exp"            -> SumOver(acts, "exp_gained")
      [] OTHER                              -> 0

\* tmpl['target'] in the unit Progress uses for the template's type
TargetOf(tmpl) == IF tmpl.type = "total_exp" THEN tmpl.target * Scale ELSE tmpl.target

\* the completion test, off by one
Completed_OffByOne(p, target) == p >= target - 1

\* 'completed': p >= tmpl['target']
Completed(p, target) == p >= target

\* the instance with the raw progress shown, not clamped
Instance_Unclamped(cid, tmpl, p, period) ==
    [id |-> cid, target |-> TargetOf(tmpl), progress |-> p,
     reward_exp |-> tmpl.reward_exp, completed |-> Completed(p, TargetOf(tmpl)),
     period |-> period]

\* one entry of the weekly or monthly list
Instance(cid, tmpl, p, period) ==
    [id |-> cid, target |-> TargetOf(tmpl), progress |-> Min(p, TargetOf(tmpl)),
     reward_exp |-> tmpl.reward_exp, completed |-> Completed(p, TargetOf(tmpl)),
     period |-> period]

\* the list weekly + monthly; okW, okM, okS: the three activity queries succeeded
get_current_challenges(acts, user_id, t, okW, okM, okS) ==
    LET ymd         == Ord2Ymd(t)
        week_start  == t - Weekday(t)
        week_end    == week_start + 6
        month_start == Ymd2Ord(ymd.year, ymd.month, 1)
        week_num    == IsoCalendar(t).week
        week_activities  == get_activities_in_range(acts, user_id, week_start, week_end, okW)
        month_activities == get_activities_in_range(acts, user_id, month_start, t, okM)
        streak  == calculate_streak(acts, user_id, t, okS)
        weekly  == [i \in DOMAIN WEEKLY_CHALLENGE_TEMPLATES |->
                      LET tmpl == WEEKLY_CHALLENGE_TEMPLATES[i]
                      IN  Instance(WeeklyId(tmpl.key, ymd.year, week_num), tmpl,
                                   Progress(tmpl, week_activities, streak), "weekly")]
        monthly == [i \in DOMAIN MONTHLY_CHALLENGE_TEMPLATES |->
                      LET tmpl == MONTHLY_CHALLENGE_TEMPLATES[i]
                      IN  Instance(MonthlyId(tmpl.key, ymd.year, ymd.month), tmpl,
                                   Progress(tmpl, month_activities, streak), "monthly")]
    IN  weekly \o monthly

\* the identifiers get_current_challenges derives on day t, in list order
ChallengeIds(t) ==
    LET chs == get_current_challenges({}, Me, t, TRUE, TRUE, TRUE)
    IN  [i \in DOMAIN chs |-> chs[i].id]

\* next((c for c in weekly + monthly if c['id'] == challenge_id), None):
\* <<c>> for the first match, <<>> for None
FindChallenge(chs, challenge_id) ==
    IF \E i \in DOMAIN chs : chs[i].id = challenge_id
    THEN <<chs[CHOOSE i \in DOMAIN chs :
                   chs[i].id = challenge_id /\ \A j \in 1..(i - 1) : chs[j].id # challenge_id]>>
    ELSE <<>>

\* the membership guard left out
AlreadyClaimed_NoGuard(challenge_id, claimed) == FALSE

\* challenge_id in current_user.claimed_challenges
AlreadyClaimed(challenge_id, claimed) == challenge_id \in Range(claimed)

\* kwargs of the update that ends a successful claim
ClaimFields(r, claimed) ==
    [exp |-> r.exp, level |-> r.level, claimed_challenges |-> claimed]

-----------------------------------------------------------------------------
(* Inactivity penalty: apply_inactivity_penalty *)

\* the once-a-day guard left out
PenaltyAlreadyApplied_NoGuard(u, today_str) == FALSE

\* user.last_penalty_date == today_str
PenaltyAlreadyApplied(u, today_str) == u.last_penalty_date = today_str

\* the day difference, without the "- 1"
InactiveDays_OffByOne(t, last_date) == t - last_date

\* inactive_days = (datetime.utcnow().date() - last_date).days - 1
InactiveDays(t, last_date) == (t - last_date) - 1

\* the penalty days, without the cap
PenaltyDays_NoCap(inactive_days) == inactive_days

\* penalty_days = min(inactive_days, 7)
PenaltyDays(inactive_days) == Min(inactive_days, 7)

\* penalty = user.exp * 0.05 * penalty_days
PenaltyAmount(exp, penalty_days) == (exp * 5 * penalty_days) \div 100

\* the penalty update, also taking a level away
PenaltyFields_Delevel(new_exp, today_str, u) ==
    [exp |-> new_exp, last_penalty_date |-> today_str, level |-> Max(1, u.level - 1)]

\* kwargs of the update that applies a penalty
PenaltyFields(new_exp, today_str, u) ==
    [exp |-> new_exp, last_penalty_date |-> today_str]

\* the whole function: the user document afterwards and what happened.
\* okR: the activities query succeeded; okW: the user update succeeded
apply_inactivity_penalty(u, acts, t, okR, okW) ==
    LET today_str == IsoFormat(t)
        dates     == ActivityDates(acts, u.id)
        stamp     == IF okW
                     THEN [user |-> update_fields(u, [last_penalty_date |-> today_str]),
                           out  |-> "penalty_stamped"]
                     ELSE [user |-> u, out |-> "penalty_error"]
    IN  IF PenaltyAlreadyApplied(u, today_str) THEN [user |-> u, out |-> "penalty_skipped"]
        ELSE IF ~okR THEN [user |-> u, out |-> "penalty_query_failed"]
        ELSE IF dates = {} THEN stamp
        ELSE LET inactive_days == InactiveDays(t, SetMax(dates))
                 penalty       == PenaltyAmount(u.exp, PenaltyDays(inactive_days))
                 new_exp       == Max(0, u.exp - penalty)
             IN  IF inactive_days > 0 /\ penalty > 0
                 THEN IF okW
                      THEN [user |-> update_fields(u, PenaltyFields(new_exp, today_str, u)),
                            out  |-> "penalty_applied"]
                      ELSE [user |-> u, out |-> "penalty_error"]
                 ELSE stamp

-----------------------------------------------------------------------------
(* Achievements *)

\* every threshold must be exceeded
get_achievements_Strict(u, total_activities, streak) ==
    << [name |-> "Primer Paso",     unlocked |-> total_activities > 1],
       [name |-> "Dedicacion",      unlocked |-> total_activities > 10],
       [name |-> "Consistente",     unlocked |-> total_activities > 50],
       [name |-> "Maratonista",     unlocked |-> total_activities > 100],
       [name |-> "Semana Perfecta", unlocked |-> streak > 7],
       [name |-> "Mes Imparable",   unlocked |-> streak > 30],
       [name |-> "Guerrero",        unlocked |-> u.level > 5],
       [name |-> "Campeon",         unlocked |-> u.level > 10],
       [name |-> "Leyenda",         unlocked |-> u.level > 25] >>

\* get_achievements(user, total_activities, streak): the list returned, each
\* entry with its name and 'unlocked' (the display texts and icon are constant)
get_achievements(u, total_activities, streak) ==
    << [name |-> "Primer Paso",     unlocked |-> total_activities >= 1],
       [name |-> "Dedicacion",      unlocked |-> total_activities >= 10],
       [name |-> "Consistente",     unlocked |-> total_activities >= 50],
       [name |-> "Maratonista",     unlocked |-> total_activities >= 100],
       [name |-> "Semana Perfecta", unlocked |-> streak >= 7],
       [name |-> "Mes Imparable",   unlocked |-> streak >= 30],
       [name |-> "Guerrero",        unlocked |-> u.level >= 5],
       [name |-> "Campeon",         unlocked |-> u.level >= 10],
       [name |-> "Leyenda",         unlocked |-> u.level >= 25] >>

-----------------------------------------------------------------------------
(* Rate limiting *)

\* the limit test with > for >=: one more attempt gets through
is_rate_limited_Inclusive(store, key, now, max_attempts, window_seconds) ==
    LET Recent(t) == now - t < window_seconds
        kept      == SelectSeq(store[key], Recent)
    IN  IF Len(kept) > max_attempts
        THEN [limited |-> TRUE,  store |-> [store EXCEPT ![key] = kept]]
        ELSE [limited |-> FALSE, store |-> [store EXCEPT ![key] = Append(kept, now)]]

\* _is_rate_limited(key, max_attempts, window_seconds) called at time now with
\* _rate_limit_store = store: the value returned and the store afterwards
is_rate_limited(store, key, now, max_attempts, window_seconds) ==
    LET Recent(t) == now - t < window_seconds
        kept      == SelectSeq(store[key], Recent)
    IN  IF Len(kept) >= max_attempts
        THEN [limited |-> TRUE,  store |-> [store EXCEPT ![key] = kept]]
        ELSE [limited |-> FALSE, store |-> [store EXCEPT ![key] = Append(kept, now)]]

-----------------------------------------------------------------------------
(* Requests explored by the model *)

VALID_EXERCISE_TYPES ==
    {"Cardio", "Pesas", "Yoga", "Natacion", "Ciclismo", "Calistenia", "HIIT",
     "Futbol", "Baloncesto", "Tenis", "Padel", "Boxeo", "Artes Marciales",
     "Crossfit", "Escalada", "Senderismo", "Remo", "Otro"}

\* the first day of the behaviours of Spec: Tuesday 31 December 2024, whose
\* Monday-Sunday week holds both 31 December and 1 January
StartDay == Ymd2Ord(2024, 12, 31)

\* weight given at registration
InitWeight == 60 + 10

\* submitted forms (web add and edit)
WebForms ==
    { [exercise_type |-> "Cardio", duration |-> 60, intensity |-> "high", has_evidence |-> FALSE, weight |-> 70] }

\* JSON bodies of POST /api/v1/activities (weight None: the key is absent)
ApiForms ==
    { [exercise_type |-> "Cardio", duration |-> 45, intensity |-> "medium", has_evidence |-> FALSE, weight |-> NoWeight] }

\* templates whose instances the claim requests name
ClaimKeys == {"w_high_intensity"}

Days == StartDay..(StartDay + MaxDay)

\* challenge identifiers named by claim requests: those of every day explored
\* (current, past and future periods) and one that no period derives
ClaimIds ==
    {c \in {ChallengeIds(d)[i] : d \in Days, i \in 1..8} : c[1] \in ClaimKeys}
    \cup {<<"nope">>}

ActivityIds == 1..MaxActs

\* the storage calls of one request that raise, out of the calls it can make
FaultSets(calls) == {F \in SUBSET calls : Cardinality(F) <= MaxFaults - faults}

-----------------------------------------------------------------------------
(* State machine *)

NewUser ==
    [id |-> Me, level |-> 1, exp |-> 0, weight |-> InitWeight, last_penalty_date |-> NoDate,
     player_class |-> None, class_selected_at |-> NoDate,
     claimed_challenges |-> <<>>]

Init ==
    /\ today = StartDay
    /\ user = NewUser
    /\ activities = {}
    /\ nextId = 1
    /\ resp = "start"
    /\ faults = 0
    /\ out = NoOut
    /\ inflight = NoInflight
    /\ limiter = NoLimiter
    /\ probe = None

\* the clock passes midnight (UTC)
AdvanceDay ==
    /\ today < StartDay + MaxDay
    /\ today' = today + 1
    /\ resp' = "midnight"
    /\ out' = NoOut
    /\ UNCHANGED <<user, activities, nextId, faults, probe, inflight, limiter>>
\* GET /dashboard: the only caller of apply_inactivity_penalty; the rest of the
\* handler reads
Dashboard ==
    \E F \in FaultSets({"query", "update"}) :
        LET r == apply_inactivity_penalty(user, activities, today,
                                          "query" \notin F, "update" \notin F)
        IN  /\ faults' = faults + Cardinality(F)
            /\ user' = r.user
            /\ resp' = r.out
            /\ out' = NoOut
            /\ UNCHANGED <<today, activities, nextId, probe, inflight, limiter>>
\* validate_positive_int(value, 'duration', 1, 1440) is not None
ValidDuration(d) == d \in Int /\ 1 <= d /\ d <= 1440

\* validate_positive_float(value, 'weight', 10, 500) is not None
ValidWeight(w) == w \in Int /\ 10 <= w /\ w <= 500

ValidForm(f) ==
    /\ f.exercise_type \in VALID_EXERCISE_TYPES
    /\ f.intensity \in VALID_INTENSITIES
    /\ ValidDuration(f.duration)
    /\ ValidWeight(f.weight)

ActivityDoc(id, f, exp_gained, weight_recorded) ==
    [id |-> id, user_id |-> user.id, date |-> today, exercise_type |-> f.exercise_type,
     duration |-> f.duration, intensity |-> f.intensity, exp_gained |-> exp_gained,
     has_evidence |-> f.has_evidence, weight_recorded |-> weight_recorded]

\* the exp_gained add_activity stores: calculate_exp_gain, then the
\* weight-change modifier when the user has a weight
SubmissionGain(u, f) ==
    LET base == calculate_exp_gain(f.duration, f.intensity, f.has_evidence, u, f.exercise_type)
    IN  IF u.weight # NoWeight THEN WeightModifier(base, u.weight, f.weight) ELSE base

\* POST /add_activity
AddActivity(f) ==
    /\ nextId <= MaxActs
    /\ UNCHANGED <<today, probe, inflight, limiter>>
    /\ IF ~ValidForm(f)
       THEN resp' = "add_invalid" /\ out' = NoOut /\ UNCHANGED <<user, activities, nextId, faults>>
       ELSE \E F \in FaultSets({"add", "update"}) :
            LET okAdd      == "add" \notin F
                okUpd      == "update" \notin F
                exp_gained == SubmissionGain(user, f)
                r          == LevelLoop(user.level, user.exp + exp_gained, <<>>)
            IN  /\ faults' = faults + Cardinality(F)
                /\ IF ~okAdd
                   THEN resp' = "add_save_failed" /\ out' = NoOut /\ UNCHANGED <<user, activities, nextId>>
                   ELSE /\ activities' = activities \cup {ActivityDoc(nextId, f, exp_gained, f.weight)}
                        /\ nextId' = nextId + 1
                        /\ out' = [flashes |-> r.ups, json |-> <<>>]
                        /\ IF okUpd
                           THEN /\ user' = update_fields(user,
                                               [exp |-> r.exp, weight |-> f.weight, level |-> r.level])
                                /\ resp' = "add_ok"
                           ELSE /\ user' = user
                                /\ resp' = "add_profile_failed"

\* the JSON body of the 201 answer: doc_ref.id, exp_gained and the in-memory
\* current_user.level, current_user.exp and leveled after the loop
ApiBody(activity_id, exp_gained, r) ==
    [activity_id |-> activity_id, exp_gained |-> exp_gained, new_level |-> r.level,
     new_exp |-> r.exp, leveled_up |-> r.ups # <<>>]

\* POST /api/v1/activities
ApiCreateActivity(f) ==
    /\ nextId <= MaxActs
    /\ UNCHANGED <<today, probe, inflight, limiter>>
    /\ IF f.exercise_type \notin VALID_EXERCISE_TYPES \/ f.intensity \notin VALID_INTENSITIES
          \/ f.duration < 1 \/ f.duration > 1440
       THEN resp' = "api_400" /\ out' = NoOut /\ UNCHANGED <<user, activities, nextId, faults>>
       ELSE \E F \in FaultSets({"add", "update"}) :
            LET okAdd      == "add" \notin F
                okUpd      == "update" \notin F
                base       == calculate_exp_gain(f.duration, f.intensity, f.has_evidence,
                                                 user, f.exercise_type)
                exp_gained == IF f.weight # NoWeight /\ user.weight # NoWeight
                              THEN WeightModifier(base, user.weight, f.weight)
                              ELSE base
                weight     == IF f.weight # NoWeight THEN f.weight ELSE user.weight
                r          == LevelLoop(user.level, user.exp + exp_gained, <<>>)
            IN  /\ faults' = faults + Cardinality(F)
                /\ IF ~okAdd
                   THEN resp' = "api_500" /\ out' = NoOut /\ UNCHANGED <<user, activities, nextId>>
                   ELSE /\ activities' = activities \cup {ActivityDoc(nextId, f, exp_gained, weight)}
                        /\ nextId' = nextId + 1
                        /\ resp' = "api_201"
                        /\ out' = [flashes |-> <<>>,
                                   json |-> <<ApiBody(nextId, exp_gained, r)>>]
                        /\ user' = IF okUpd
                                   THEN update_fields(user,
                                            [exp |-> r.exp, weight |-> weight, level |-> r.level])
                                   ELSE user

\* db.collection('activities').document(activity_id).get(): {} when not doc.exists
GetActivity(activity_id) ==
    {a \in activities : a.id = activity_id}

\* every document passes the ownership test
Owns_Anyone(activity, u) == TRUE

\* activity.get('user_id') == current_user.id
Owns(activity, u) == activity.user_id = u.id

\* the edit's update, with the leveling loop run on the new exp
EditFields_Relevel(u, new_exp, old_exp, weight) ==
    LET r == LevelLoop(u.level, Max(0, u.exp + (new_exp - old_exp)), <<>>)
    IN  [exp |-> r.exp, level |-> r.level, weight |-> weight]

\* kwargs of the update that ends an edit:
\* current_user.exp = max(0, current_user.exp + (new_exp - old_exp))
EditFields(u, new_exp, old_exp, weight) ==
    [exp |-> Max(0, u.exp + (new_exp - old_exp)), weight |-> weight]

\* POST /edit_activity/<activity_id>
EditActivity(activity_id, f) ==
    /\ out' = NoOut
    /\ UNCHANGED <<today, nextId, probe, inflight, limiter>>
    /\ \E F \in FaultSets({"get", "update_activity", "update"}) :
       LET okGet    == "get" \notin F
           okAct    == "update_activity" \notin F
           okUpd    == "update" \notin F
           doc      == GetActivity(activity_id)
           activity == CHOOSE a \in doc : TRUE
       IN  /\ faults' = faults + Cardinality(F)
           /\ IF ~okGet
              THEN resp' = "edit_load_failed" /\ UNCHANGED <<user, activities>>
              ELSE IF doc = {}
              THEN resp' = "edit_not_found" /\ UNCHANGED <<user, activities>>
              ELSE IF ~Owns(activity, user)
              THEN resp' = "edit_forbidden" /\ UNCHANGED <<user, activities>>
              ELSE IF ~ValidForm(f)
              THEN resp' = "edit_invalid" /\ UNCHANGED <<user, activities>>
              ELSE LET new_exp == calculate_exp_gain(f.duration, f.intensity, f.has_evidence,
                                                     user, f.exercise_type)
                       old_exp == activity.exp_gained
                       edited  == [activity EXCEPT !.exercise_type = f.exercise_type,
                                                   !.duration = f.duration,
                                                   !.intensity = f.intensity,
                                                   !.has_evidence = f.has_evidence,
                                                   !.weight_recorded = f.weight,
                                                   !.exp_gained = new_exp]
                   IN  IF ~okAct
                       THEN resp' = "edit_failed" /\ UNCHANGED <<user, activities>>
                       ELSE /\ activities' = (activities \ {activity}) \cup {edited}
                            /\ IF okUpd
                               THEN /\ user' = update_fields(user,
                                                  EditFields(user, new_exp, old_exp, f.weight))
                                    /\ resp' = "edit_ok"
                               ELSE /\ user' = user
                                    /\ resp' = "edit_failed"

\* POST /delete_activity/<activity_id>
DeleteActivity(activity_id) ==
    /\ out' = NoOut
    /\ UNCHANGED <<today, nextId, probe, inflight, limiter>>
    /\ \E F \in FaultSets({"get", "delete", "update"}) :
       LET okGet    == "get" \notin F
           okDel    == "delete" \notin F
           okUpd    == "update" \notin F
           doc      == GetActivity(activity_id)
           activity == CHOOSE a \in doc : TRUE
       IN  /\ faults' = faults + Cardinality(F)
           /\ IF ~okGet
              THEN resp' = "delete_failed" /\ UNCHANGED <<user, activities>>
              ELSE IF doc = {}
              THEN resp' = "delete_not_found" /\ UNCHANGED <<user, activities>>
              ELSE IF ~Owns(activity, user)
              THEN resp' = "delete_forbidden" /\ UNCHANGED <<user, activities>>
              ELSE IF ~okDel
              THEN resp' = "delete_failed" /\ UNCHANGED <<user, activities>>
              ELSE /\ activities' = activities \ {activity}
                   /\ IF okUpd
                      THEN /\ user' = update_fields(user,
                                         [exp |-> Max(0, user.exp - activity.exp_gained)])
                           /\ resp' = "delete_ok"
                      ELSE /\ user' = user
                           /\ resp' = "delete_exp_failed"

\* POST /claim-challenge/<challenge_id>
ClaimChallenge(challenge_id) ==
    /\ UNCHANGED <<today, activities, nextId, probe, inflight, limiter>>
    /\ \E F \in FaultSets({"week", "month", "streak", "update"}) :
       LET okUpd  == "update" \notin F
           chs    == get_current_challenges(activities, user.id, today,
                                            "week" \notin F, "month" \notin F, "streak" \notin F)
           found  == FindChallenge(chs, challenge_id)
           target == found[1]
       IN  /\ faults' = faults + Cardinality(F)
           /\ IF found = <<>>
              THEN resp' = "claim_not_found" /\ user' = user /\ out' = NoOut
              ELSE IF ~target.completed
              THEN resp' = "claim_not_completed" /\ user' = user /\ out' = NoOut
              ELSE IF AlreadyClaimed(challenge_id, user.claimed_challenges)
              THEN resp' = "claim_already" /\ user' = user /\ out' = NoOut
              ELSE LET r       == LevelLoop(user.level, user.exp + target.reward_exp * Scale, <<>>)
                       claimed == Append(user.claimed_challenges, challenge_id)
                   IN  /\ out' = [flashes |-> r.ups, json |-> <<>>]
                       /\ IF okUpd
                          THEN /\ user' = update_fields(user, ClaimFields(r, claimed))
                               /\ resp' = "claim_ok"
                          ELSE /\ user' = user
                               /\ resp' = "claim_error"

Next ==
    \/ AdvanceDay
    \/ Dashboard
    \/ \E f \in WebForms : AddActivity(f)
    \/ \E f \in ApiForms : ApiCreateActivity(f)
    \/ \E id \in ActivityIds, f \in WebForms : EditActivity(id, f)
    \/ \E id \in ActivityIds : DeleteActivity(id)
    \/ \E cid \in ClaimIds : ClaimChallenge(cid)

Spec == Init /\ [][Next]_vars

-----------------------------------------------------------------------------
(* Penalty evaluation from drawn user states: SpecPenalty *)

\* how many days before the first day the last activity may lie
MaxAgo == 9

\* (level, exp) of the drawn users; exp is below the level's threshold
PenaltyStarts ==
    { <<1, 0>>, <<1, 50 * Scale>>, <<3, 518 * Scale + 999>>, <<5, 1000 * Scale>> }

PastActivity(ago) ==
    [id |-> 1, user_id |-> Me, date |-> StartDay - ago, exercise_type |-> "Cardio",
     duration |-> 60, intensity |-> "high", exp_gained |-> 120 * Scale,
     has_evidence |-> FALSE, weight_recorded |-> InitWeight]

\* a user with some progress, whose most recent activity (if any) is 0..MaxAgo
\* days old, and whose last penalty evaluation was never, yesterday or today
InitPenalty ==
    /\ today = StartDay
    /\ \E s \in PenaltyStarts, lpd \in {NoDate, IsoFormat(StartDay - 1), IsoFormat(StartDay)} :
          user = [NewUser EXCEPT !.level = s[1], !.exp = s[2], !.last_penalty_date = lpd]
    /\ activities \in {{}} \cup {{PastActivity(ago)} : ago \in 0..MaxAgo}
    /\ nextId = 2
    /\ resp = "start"
    /\ faults = 0
    /\ out = NoOut
    /\ inflight = NoInflight
    /\ limiter = NoLimiter
    /\ probe = None

NextPenalty ==
    \/ AdvanceDay
    \/ Dashboard

SpecPenalty == InitPenalty /\ [][NextPenalty]_vars

-----------------------------------------------------------------------------
(* Identifier derivation over pairs of dates: SpecIds *)

\* the days drawn: the first ISO week of 2024, and the three weeks around the
\* change from 2024 to 2025
ProbeDays ==
    (Ymd2Ord(2024, 1, 1)..Ymd2Ord(2024, 1, 7))
    \cup (Ymd2Ord(2024, 12, 23)..Ymd2Ord(2025, 1, 12))

InitIds ==
    /\ today = StartDay
    /\ user = NewUser
    /\ activities = {}
    /\ nextId = 1
    /\ resp = "start"
    /\ faults = 0
    /\ out = NoOut
    /\ inflight = NoInflight
    /\ limiter = NoLimiter
    /\ \E a \in ProbeDays, b \in ProbeDays :
          a <= b /\ probe = [d1 |-> a, d2 |-> b, ids1 |-> <<>>, ids2 |-> <<>>]

\* two derivations of the challenge list, on day d1 and on day d2
DeriveIds ==
    /\ probe.ids1 = <<>>
    /\ probe' = [probe EXCEPT !.ids1 = ChallengeIds(probe.d1), !.ids2 = ChallengeIds(probe.d2)]
    /\ UNCHANGED <<today, user, activities, nextId, resp, faults, out, inflight, limiter>>
NextIds == DeriveIds

SpecIds == InitIds /\ [][NextIds]_vars

-----------------------------------------------------------------------------
(* Submissions, edits, deletions and claims from drawn user states: SpecLevel *)

\* (level, exp, player_class) of the drawn users: exp is below the level's
\* threshold, and a class is held from level 5 on (select_class)
LevelStarts ==
    { <<1, 0, None>>, <<1, 95 * Scale, None>>, <<5, 1000 * Scale, "corredor">> }

\* weight of the drawn users: None (an account created by Google sign-in) or
\* the weight given at registration
LevelWeights == {NoWeight, InitWeight}

\* submitted forms (web add and edit): a gain of 10 EXP at the user's weight, a
\* lighter weight, and the longest activity at a heavier weight
LevelWebForms ==
    { [exercise_type |-> "Cardio", duration |-> 10, intensity |-> "low",
       has_evidence |-> FALSE, weight |-> 70],
      [exercise_type |-> "Cardio", duration |-> 60, intensity |-> "high",
       has_evidence |-> FALSE, weight |-> 65],
      [exercise_type |-> "Cardio", duration |-> 1440, intensity |-> "high",
       has_evidence |-> TRUE, weight |-> 75] }

\* JSON bodies of POST /api/v1/activities
LevelApiForms ==
    { [exercise_type |-> "Cardio", duration |-> 1440, intensity |-> "high",
       has_evidence |-> TRUE, weight |-> NoWeight],
      [exercise_type |-> "Cardio", duration |-> 10, intensity |-> "low",
       has_evidence |-> FALSE, weight |-> 65],
      [exercise_type |-> "Cardio", duration |-> 10, intensity |-> "low",
       has_evidence |-> FALSE, weight |-> 70],
      [exercise_type |-> "Cardio", duration |-> 10, intensity |-> "low",
       has_evidence |-> FALSE, weight |-> 75] }

\* a drawn user with no activity; no storage call raises; probe keeps the
\* level and exp the behaviour started from
InitLevel ==
    /\ today = StartDay
    /\ \E s \in LevelStarts, w \in LevelWeights :
          /\ user = [NewUser EXCEPT !.level = s[1], !.exp = s[2], !.player_class = s[3],
                                    !.weight = w]
          /\ probe = [level |-> s[1], exp |-> s[2]]
    /\ activities = {}
    /\ nextId = 1
    /\ resp = "start"
    /\ faults = MaxFaults
    /\ out = NoOut
    /\ inflight = NoInflight
    /\ limiter = NoLimiter

NextLevel ==
    \/ \E f \in LevelWebForms : AddActivity(f)
    \/ \E f \in LevelApiForms : ApiCreateActivity(f)
    \/ \E id \in ActivityIds, f \in LevelWebForms : EditActivity(id, f)
    \/ \E id \in ActivityIds : DeleteActivity(id)
    \/ \E cid \in ClaimIds : ClaimChallenge(cid)

SpecLevel == InitLevel /\ [][NextLevel]_vars

-----------------------------------------------------------------------------
(* An activity created and then deleted: SpecRound *)

\* (level, exp, player_class) of the drawn users, exp below the threshold
RoundStarts ==
    LevelStarts \cup { <<1, 50 * Scale, None>>, <<2, 0, None>>, <<2, 200 * Scale, None>>,
                       <<5, 0, "corredor">> }

\* as InitLevel, over RoundStarts; probe keeps the level and exp before the
\* creation
InitRound ==
    /\ today = StartDay
    /\ \E s \in RoundStarts, w \in LevelWeights :
          /\ user = [NewUser EXCEPT !.level = s[1], !.exp = s[2], !.player_class = s[3],
                                    !.weight = w]
          /\ probe = [level |-> s[1], exp |-> s[2]]
    /\ activities = {}
    /\ nextId = 1
    /\ resp = "start"
    /\ faults = MaxFaults
    /\ out = NoOut
    /\ inflight = NoInflight
    /\ limiter = NoLimiter

\* creations and deletions only: no edit, claim or penalty in between
NextRound ==
    \/ \E f \in LevelWebForms : AddActivity(f)
    \/ \E f \in LevelApiForms : ApiCreateActivity(f)
    \/ \E id \in ActivityIds : DeleteActivity(id)

SpecRound == InitRound /\ [][NextRound]_vars

-----------------------------------------------------------------------------
(* The streak over drawn sets of activity dates: SpecStreak *)

\* how many days before today the drawn activity dates reach
StreakBack == 5

\* one activity document per date of S
StreakActivities(S) ==
    {[PastActivity(StartDay - d) EXCEPT !.id = StartDay - d + 1] : d \in S}

InitStreak ==
    /\ today = StartDay
    /\ user = NewUser
    /\ activities \in {StreakActivities(S) : S \in SUBSET ((StartDay - StreakBack)..StartDay)}
    /\ nextId = StreakBack + 2
    /\ resp = "start"
    /\ faults = 0
    /\ out = NoOut
    /\ inflight = NoInflight
    /\ limiter = NoLimiter
    /\ probe = <<>>

\* one call of calculate_streak(current_user.id); its query may raise
ComputeStreak ==
    /\ probe = <<>>
    /\ \E F \in FaultSets({"query"}) :
          /\ faults' = faults + Cardinality(F)
          /\ probe' = <<[ok     |-> "query" \notin F,
                         streak |-> calculate_streak(activities, user.id, today,
                                                     "query" \notin F)]>>
    /\ UNCHANGED <<today, user, activities, nextId, resp, out, inflight, limiter>>
NextStreak == ComputeStreak

SpecStreak == InitStreak /\ [][NextStreak]_vars

-----------------------------------------------------------------------------
(* The threshold of each level: SpecThreshold *)

\* the highest level drawn
MaxLevel == 58

InitThreshold ==
    /\ today = StartDay
    /\ user = NewUser
    /\ activities = {}
    /\ nextId = 1
    /\ resp = "start"
    /\ faults = 0
    /\ out = NoOut
    /\ inflight = NoInflight
    /\ limiter = NoLimiter
    /\ \E l \in 1..MaxLevel : probe = <<l>>

\* one call of calculate_exp_for_next_level(level)
ComputeThreshold ==
    /\ Len(probe) = 1
    /\ probe' = <<probe[1], calculate_exp_for_next_level(probe[1])>>
    /\ UNCHANGED <<today, user, activities, nextId, resp, faults, out, inflight, limiter>>
NextThreshold == ComputeThreshold

SpecThreshold == InitThreshold /\ [][NextThreshold]_vars

-----------------------------------------------------------------------------
(* The gain rule over drawn arguments: SpecGain *)

\* arguments drawn: durations at the ends and inside 1..1440, the three
\* intensities and an unknown one, classes and exercise types in and out of
\* their specialties
GainDurations == {1, 45, 60, 1440}
GainIntensities == VALID_INTENSITIES \cup {"extreme"}
GainClasses == {None, "corredor", "guerrero"}
GainTypes == {"Cardio", "Pesas", "Otro"}

InitGain ==
    /\ today = StartDay
    /\ \E c \in GainClasses : user = [NewUser EXCEPT !.player_class = c]
    /\ activities = {}
    /\ nextId = 1
    /\ resp = "start"
    /\ faults = 0
    /\ out = NoOut
    /\ inflight = NoInflight
    /\ limiter = NoLimiter
    /\ \E d \in GainDurations, i \in GainIntensities, e \in BOOLEAN, t \in GainTypes :
          probe = <<[duration |-> d, intensity |-> i, has_evidence |-> e, exercise_type |-> t]>>

\* one call of calculate_exp_gain(duration, intensity, has_evidence, current_user,
\* exercise_type)
ComputeGain ==
    /\ Len(probe) = 1
    /\ probe' = Append(probe, calculate_exp_gain(probe[1].duration, probe[1].intensity,
                                                 probe[1].has_evidence, user,
                                                 probe[1].exercise_type))
    /\ UNCHANGED <<today, user, activities, nextId, resp, faults, out, inflight, limiter>>
NextGain == ComputeGain

SpecGain == InitGain /\ [][NextGain]_vars

-----------------------------------------------------------------------------
(* The challenge list over drawn activity sets: SpecChallenges *)

\* how many days before today the drawn activities reach
ChallengeBack == 7

\* the activity of k days ago: types, durations and intensities vary with k
ChallengeDoc(t, k) ==
    LET f == [exercise_type |-> <<"Cardio", "Pesas", "Yoga", "Natacion">>[(k % 4) + 1],
              duration      |-> IF k % 2 = 0 THEN 1440 ELSE 30,
              intensity     |-> IF k % 3 = 0 THEN "high" ELSE "low",
              has_evidence  |-> TRUE,
              weight        |-> InitWeight]
    IN  [id |-> k + 1, user_id |-> Me, date |-> t - k, exercise_type |-> f.exercise_type,
         duration |-> f.duration, intensity |-> f.intensity,
         exp_gained |-> SubmissionGain(NewUser, f),
         has_evidence |-> f.has_evidence, weight_recorded |-> f.weight]

\* Sunday 5 January 2025: the week and the month both hold several days
InitChallenges ==
    /\ today = StartDay + 5
    /\ user = NewUser
    /\ \E K \in SUBSET (0..ChallengeBack) : activities = {ChallengeDoc(today, k) : k \in K}
    /\ nextId = ChallengeBack + 2
    /\ resp = "start"
    /\ faults = MaxFaults
    /\ out = NoOut
    /\ inflight = NoInflight
    /\ limiter = NoLimiter
    /\ probe = <<>>

\* one call of get_current_challenges(current_user.id, current_user)
DeriveChallenges ==
    /\ probe = <<>>
    /\ probe' = get_current_challenges(activities, user.id, today, TRUE, TRUE, TRUE)
    /\ UNCHANGED <<today, user, activities, nextId, resp, faults, out, inflight, limiter>>
NextChallenges == DeriveChallenges

SpecChallenges == InitChallenges /\ [][NextChallenges]_vars

-----------------------------------------------------------------------------
(* Rejected requests: SpecValid *)

\* another user, who owns one of the stored documents
Other == "u2"

\* document ids named by edit and delete requests: the user's own stored
\* document, a document of another user, and an id no document has
OwnId == MaxActs + 1

ForeignId == MaxActs + 2

MissingId == MaxActs + 3

RequestIds == {OwnId, ForeignId, MissingId}

\* a well-formed request body
GoodForm ==
    [exercise_type |-> "Cardio", duration |-> 60, intensity |-> "high",
     has_evidence |-> FALSE, weight |-> 70]

\* GoodForm, and GoodForm with one field at a time out of its domain: an unknown
\* type, an unknown intensity, durations 0 and 1441, weights 9 and 501
ValidationForms ==
    {GoodForm,
     [GoodForm EXCEPT !.exercise_type = "Zumba"],
     [GoodForm EXCEPT !.intensity = "extreme"],
     [GoodForm EXCEPT !.duration = 0],
     [GoodForm EXCEPT !.duration = 1440 + 1],
     [GoodForm EXCEPT !.weight = 10 - 1],
     [GoodForm EXCEPT !.weight = 500 + 1]}

\* JSON bodies: the same, and one without the key 'weight'
ValidationBodies == ValidationForms \cup {[GoodForm EXCEPT !.weight = NoWeight]}

\* a stored document of user owner
StoredDoc(id, owner) ==
    [id |-> id, user_id |-> owner, date |-> StartDay - 1, exercise_type |-> "Yoga",
     duration |-> 30, intensity |-> "low", exp_gained |-> 30 * Scale,
     has_evidence |-> FALSE, weight_recorded |-> InitWeight]

ValidStarts == {<<1, 0>>, <<1, 20 * Scale>>, <<2, 100 * Scale>>, <<3, 0>>}

InitValid ==
    /\ today = StartDay
    /\ \E s \in ValidStarts : user = [NewUser EXCEPT !.level = s[1], !.exp = s[2]]
    /\ activities = {StoredDoc(OwnId, Me), StoredDoc(ForeignId, Other)}
    /\ nextId = 1
    /\ resp = "start"
    /\ faults = MaxFaults
    /\ out = NoOut
    /\ inflight = NoInflight
    /\ limiter = NoLimiter
    /\ probe = None

NextValid ==
    \/ \E f \in ValidationForms : AddActivity(f)
    \/ \E f \in ValidationBodies : ApiCreateActivity(f)
    \/ \E id \in RequestIds, f \in ValidationForms : EditActivity(id, f)
    \/ \E id \in RequestIds : DeleteActivity(id)

SpecValid == InitValid /\ [][NextValid]_vars

-----------------------------------------------------------------------------
(* get_achievements over drawn arguments: SpecAchievements *)

\* activity counts, streaks and levels at, just below and above each threshold
AchievementCounts == {0, 1, 9, 10, 49, 50, 99, 100, 101}

AchievementStreaks == {0, 6, 7, 29, 30, 31}

AchievementLevels == {1, 4, 5, 9, 10, 24, 25, 26}

\* users that differ in more than their level
InitAchievements ==
    /\ today = StartDay
    /\ \E l \in AchievementLevels, e \in {0, 50 * Scale}, c \in {None, "guerrero"} :
          user = [NewUser EXCEPT !.level = l, !.exp = e, !.player_class = c]
    /\ activities = {}
    /\ nextId = 1
    /\ resp = "start"
    /\ faults = MaxFaults
    /\ out = NoOut
    /\ inflight = NoInflight
    /\ limiter = NoLimiter
    /\ \E n \in AchievementCounts, s \in AchievementStreaks :
          probe = <<[total_activities |-> n, streak |-> s]>>

\* one call of get_achievements(current_user, total_activities, streak)
ComputeAchievements ==
    /\ Len(probe) = 1
    /\ probe' = Append(probe, get_achievements(user, probe[1].total_activities, probe[1].streak))
    /\ UNCHANGED <<today, user, activities, nextId, resp, faults, out, inflight, limiter>>

NextAchievements == ComputeAchievements

SpecAchievements == InitAchievements /\ [][NextAchievements]_vars

-----------------------------------------------------------------------------
(* The leveling loop, one iteration per step: SpecLoop *)

\* levels and exp (in EXP) the loop is entered with: exp 0, just below and at
\* the first threshold, and amounts worth several and many levels
LoopLevels == {1, 2, 5, 10, 30}

LoopExps == {0, 99, 100, 382, 383, 1000, 3456, 5000, 20000, 100000}

\* probe holds the loop's variables current_user.level and current_user.exp,
\* the values it was entered with, and whether the loop has been left
InitLoop ==
    /\ today = StartDay
    /\ user = NewUser
    /\ activities = {}
    /\ nextId = 1
    /\ resp = "start"
    /\ faults = MaxFaults
    /\ out = NoOut
    /\ inflight = NoInflight
    /\ limiter = NoLimiter
    /\ \E l \in LoopLevels, e \in LoopExps :
          probe = [level0 |-> l, exp0 |-> e * Scale, level |-> l, exp |-> e * Scale,
                   done |-> FALSE]

\* the loop's test succeeds: current_user.exp -= threshold; current_user.level += 1
LoopIterate ==
    /\ ~probe.done
    /\ probe.exp >= calculate_exp_for_next_level(probe.level) * Scale
    /\ probe' = [probe EXCEPT !.exp = @ - calculate_exp_for_next_level(probe.level) * Scale,
                              !.level = @ + 1]
    /\ UNCHANGED <<today, user, activities, nextId, resp, faults, out, inflight, limiter>>

\* the loop's test fails: the loop is left
LoopExit ==
    /\ ~probe.done
    /\ probe.exp < calculate_exp_for_next_level(probe.level) * Scale
    /\ probe' = [probe EXCEPT !.done = TRUE]
    /\ UNCHANGED <<today, user, activities, nextId, resp, faults, out, inflight, limiter>>

NextLoop ==
    \/ LoopIterate
    \/ LoopExit

\* the interpreter keeps executing the loop: a step that can be taken is taken
SpecLoop == InitLoop /\ [][NextLoop]_vars /\ WF_vars(NextLoop)

-----------------------------------------------------------------------------
(* The rate limiter over call sequences: SpecRate *)

\* the latest time (seconds) the clock reaches
MaxNow == 4

\* the number of calls made
MaxCalls == 5

\* keys of the calls: login attempts from two addresses
RateKeys == {"login:10.0.0.1", "login:10.0.0.2"}

\* (max_attempts, window_seconds) of the call site
RateLimits == {<<2, 3>>, <<1, 2>>}

\* limiter is the clock and _rate_limit_store; probe holds the call site's
\* arguments and the calls made so far, each with the value it returned
InitRate ==
    /\ today = StartDay
    /\ user = NewUser
    /\ activities = {}
    /\ nextId = 1
    /\ resp = "start"
    /\ faults = MaxFaults
    /\ out = NoOut
    /\ inflight = NoInflight
    /\ limiter = [now |-> 0, store |-> [k \in RateKeys |-> <<>>]]
    /\ \E p \in RateLimits :
          probe = [max_attempts |-> p[1], window_seconds |-> p[2], calls |-> <<>>]

\* time.time() advances
Tick ==
    /\ limiter.now < MaxNow
    /\ limiter' = [limiter EXCEPT !.now = @ + 1]
    /\ UNCHANGED <<today, user, activities, nextId, resp, faults, out, probe, inflight>>

\* one call _is_rate_limited(key, max_attempts, window_seconds)
RateCall(key) ==
    /\ Len(probe.calls) < MaxCalls
    /\ LET r == is_rate_limited(limiter.store, key, limiter.now,
                                probe.max_attempts, probe.window_seconds)
       IN  /\ limiter' = [limiter EXCEPT !.store = r.store]
           /\ probe' = [probe EXCEPT !.calls = Append(@, [key |-> key, t |-> limiter.now,
                                                          limited |-> r.limited])]
    /\ UNCHANGED <<today, user, activities, nextId, resp, faults, out, inflight>>

NextRate ==
    \/ Tick
    \/ \E k \in RateKeys : RateCall(k)

SpecRate == InitRate /\ [][NextRate]_vars

-----------------------------------------------------------------------------
(* Class selection: SpecClass *)

\* the days the clock runs past StartDay
ClassDays == 31

\* the keys of PLAYER_CLASSES
PLAYER_CLASSES ==
    {"guerrero", "corredor", "monje", "nadador", "ciclista", "deportista", "luchador"}

\* instants are counted in half days: day d at 00:00 and at 12:00
HalfDays == 2

\* datetime.utcnow(): probe.half is the half of the day the clock is in
Now == today * HalfDays + probe.half

\* the forms a stored class_selected_at is read back in: the naive ISO text
\* that select_class writes, an ISO text with a UTC offset, and a timestamp
\* value of the document store (read back as a timezone-aware datetime)
ClassStampForms == {"iso", "iso_offset", "timestamp"}

\* datetime.utcnow().isoformat()
IsoStamp(t) == <<"iso", t>>

\* (datetime.utcnow() - sa).days after the conversion of the stored value:
\* <<days>>, or <<>> when the subtraction raises (a naive datetime minus an
\* aware one is a TypeError)
DaysSince(stored, now) ==
    IF stored[1] = "iso" THEN <<(now - stored[2]) \div HalfDays>> ELSE <<>>

\* the 30-day test of select_class; an exception inside it is swallowed
\* (except Exception: pass) and the request goes on
MustWait(u, now) ==
    /\ u.class_selected_at # NoDate
    /\ DaysSince(u.class_selected_at, now) # <<>>
    /\ DaysSince(u.class_selected_at, now)[1] < 30

\* classes named by the requests: two classes and a name that is no class
ClassChoices == {"guerrero", "corredor", "mago"}

\* POST /select-class
SelectClass(chosen) ==
    /\ out' = NoOut
    /\ UNCHANGED <<today, activities, nextId, inflight, limiter>>
    /\ IF user.level < 5
       THEN resp' = "class_level" /\ UNCHANGED <<user, faults, probe>>
       ELSE IF MustWait(user, Now)
       THEN resp' = "class_wait" /\ UNCHANGED <<user, faults, probe>>
       ELSE IF chosen \notin PLAYER_CLASSES
       THEN resp' = "class_invalid" /\ UNCHANGED <<user, faults, probe>>
       ELSE \E F \in FaultSets({"update"}) :
            /\ faults' = faults + Cardinality(F)
            /\ IF "update" \in F
               THEN resp' = "class_error" /\ UNCHANGED <<user, probe>>
               ELSE /\ user' = update_fields(user, [player_class |-> chosen,
                                                    class_selected_at |-> IsoStamp(Now)])
                    /\ resp' = "class_ok"
                    /\ probe' = [probe EXCEPT !.selected = Append(@, Now)]

\* half a day passes
PassHalfDay ==
    /\ today < StartDay + ClassDays
    /\ today' = IF probe.half = 1 THEN today + 1 ELSE today
    /\ probe' = [probe EXCEPT !.half = 1 - @]
    /\ resp' = "later"
    /\ out' = NoOut
    /\ UNCHANGED <<user, activities, nextId, faults, inflight, limiter>>

\* a user at level 4 or 5 who never selected a class, or who selected one
\* yesterday or 30 days ago, the instant stored in one of the forms; probe
\* also lists the instants of the successful selections of the behaviour
InitClass ==
    /\ today = StartDay
    /\ \E l \in {4, 5} :
          \/ user = [NewUser EXCEPT !.level = l]
          \/ \E form \in ClassStampForms, ago \in {1, 30} :
                user = [NewUser EXCEPT !.level = l, !.player_class = "monje",
                                       !.class_selected_at =
                                           <<form, (StartDay - ago) * HalfDays>>]
    /\ activities = {}
    /\ nextId = 1
    /\ resp = "start"
    /\ faults = 0
    /\ out = NoOut
    /\ inflight = NoInflight
    /\ limiter = NoLimiter
    /\ probe = [half |-> 0, selected |-> <<>>]

NextClass ==
    \/ PassHalfDay
    \/ \E c \in ClassChoices : SelectClass(c)

SpecClass == InitClass /\ [][NextClass]_vars

-----------------------------------------------------------------------------
(* Two requests of one user served concurrently: SpecConc *)

\* the kwargs of the update that ends a submission, with the leveling loop
\* left out
SubmissionFields_NoLoop(u, exp_gained, weight) ==
    [exp |-> u.exp + exp_gained, weight |-> weight, level |-> u.level]

\* current_user.exp += exp_gained; current_user.weight = weight; the leveling
\* loop; kwargs of update_fields(exp=..., weight=..., level=...)
SubmissionFields(u, exp_gained, weight) ==
    LET r == LevelLoop(u.level, u.exp + exp_gained, <<>>)
    IN  [exp |-> r.exp, weight |-> weight, level |-> r.level]

\* exp_gained of api_create_activity: the weight modifier only when the body
\* has a weight and the user has one
ApiGain(u, f) ==
    LET base == calculate_exp_gain(f.duration, f.intensity, f.has_evidence, u, f.exercise_type)
    IN  IF f.weight # NoWeight /\ u.weight # NoWeight
        THEN WeightModifier(base, u.weight, f.weight)
        ELSE base

Requests == {1, 2}

\* the instance of w_high_intensity of the week of StartDay
WeekClaimId ==
    CHOOSE c \in {ChallengeIds(StartDay)[i] : i \in 1..8} : c[1] = "w_high_intensity"

\* a request before the user is loaded
NewRequest(kind, arg) ==
    [pc |-> "load", kind |-> kind, arg |-> arg, u |-> <<>>, kwargs |-> <<>>,
     resp |-> "pending", after |-> FALSE]

\* the pairs of requests: two submissions (web, API with and without a
\* weight), or two claims of the same challenge
RequestPairs ==
    LET web  == NewRequest("add", GoodForm)
        api  == NewRequest("api", [GoodForm EXCEPT !.duration = 45, !.intensity = "medium",
                                                   !.weight = NoWeight])
        apiw == NewRequest("api", [GoodForm EXCEPT !.duration = 30, !.weight = 65])
        clm  == NewRequest("claim", WeekClaimId)
    IN  {<<web, web>>, <<web, api>>, <<api, apiw>>, <<apiw, web>>, <<clm, clm>>}

ConcStarts == {<<1, 0>>, <<1, 50 * Scale>>, <<2, 200 * Scale>>}

\* the user has one high-intensity activity today, so that w_high_intensity is
\* completed and unclaimed; probe keeps the user record the behaviour starts with
InitConc ==
    /\ today = StartDay
    /\ \E s \in ConcStarts : user = [NewUser EXCEPT !.level = s[1], !.exp = s[2]]
    /\ activities = {PastActivity(0)}
    /\ nextId = 2
    /\ resp = "start"
    /\ faults = MaxFaults
    /\ out = NoOut
    /\ inflight \in RequestPairs
    /\ limiter = NoLimiter
    /\ probe = <<user>>

\* load_user: User.get_by_id(user_id) reads the persisted record into the
\* request's current_user
LoadUser(r) ==
    /\ inflight[r].pc = "load"
    /\ inflight' = [inflight EXCEPT ![r].u = <<user>>,
                                    ![r].after = (inflight[3 - r].pc = "done"),
                                    ![r].pc = IF inflight[r].kind = "claim"
                                              THEN "evaluate" ELSE "insert"]
    /\ UNCHANGED <<today, user, activities, nextId, resp, faults, out, probe, limiter>>

\* add_activity / api_create_activity up to the update: the gain from the
\* loaded user, the insert, and the leveling loop on the loaded values
InsertActivity(r) ==
    /\ inflight[r].pc = "insert"
    /\ LET u          == inflight[r].u[1]
           f          == inflight[r].arg
           exp_gained == IF inflight[r].kind = "add" THEN SubmissionGain(u, f)
                         ELSE ApiGain(u, f)
           weight     == IF f.weight # NoWeight THEN f.weight ELSE u.weight
       IN  /\ activities' = activities \cup {ActivityDoc(nextId, f, exp_gained, weight)}
           /\ nextId' = nextId + 1
           /\ inflight' = [inflight EXCEPT
                              ![r].kwargs = <<SubmissionFields(u, exp_gained, weight)>>,
                              ![r].pc = "update"]
    /\ UNCHANGED <<today, user, resp, faults, out, probe, limiter>>

\* claim_challenge up to the update: the challenge list from the stored
\* activities and the three guards on the loaded user
EvaluateClaim(r) ==
    /\ inflight[r].pc = "evaluate"
    /\ LET u      == inflight[r].u[1]
           cid    == inflight[r].arg
           chs    == get_current_challenges(activities, u.id, today, TRUE, TRUE, TRUE)
           found  == FindChallenge(chs, cid)
           target == found[1]
           reject(outcome) ==
               /\ inflight' = [inflight EXCEPT ![r].pc = "done", ![r].resp = outcome]
               /\ resp' = outcome
       IN  IF found = <<>> THEN reject("claim_not_found")
           ELSE IF ~target.completed THEN reject("claim_not_completed")
           ELSE IF AlreadyClaimed(cid, u.claimed_challenges) THEN reject("claim_already")
           ELSE LET lv == LevelLoop(u.level, u.exp + target.reward_exp * Scale, <<>>)
                IN  /\ inflight' = [inflight EXCEPT
                                       ![r].kwargs = <<ClaimFields(lv, Append(u.claimed_challenges, cid))>>,
                                       ![r].pc = "update"]
                    /\ resp' = resp
    /\ UNCHANGED <<today, user, activities, nextId, faults, out, probe, limiter>>

\* current_user.update_fields(**kwargs): the values computed from the loaded
\* record overwrite the persisted fields
UpdateUser(r) ==
    /\ inflight[r].pc = "update"
    /\ user' = update_fields(user, inflight[r].kwargs[1])
    /\ LET outcome == CASE inflight[r].kind = "add"   -> "add_ok"
                        [] inflight[r].kind = "api"   -> "api_201"
                        [] inflight[r].kind = "claim" -> "claim_ok"
       IN  /\ inflight' = [inflight EXCEPT ![r].pc = "done", ![r].resp = outcome]
           /\ resp' = outcome
    /\ UNCHANGED <<today, activities, nextId, faults, out, probe, limiter>>

NextConc ==
    \/ \E r \in Requests : LoadUser(r)
    \/ \E r \in Requests : InsertActivity(r)
    \/ \E r \in Requests : EvaluateClaim(r)
    \/ \E r \in Requests : UpdateUser(r)

SpecConc == InitConc /\ [][NextConc]_vars

-----------------------------------------------------------------------------
(* Properties *)

ClaimOutcomes ==
    {"claim_not_found", "claim_not_completed", "claim_already", "claim_ok", "claim_error"}

AllTemplates == WEEKLY_CHALLENGE_TEMPLATES \o MONTHLY_CHALLENGE_TEMPLATES

\* the template an identifier names by its key
TemplateOf(cid) ==
    AllTemplates[CHOOSE i \in DOMAIN AllTemplates : AllTemplates[i].key = cid[1]]

\* level and exp after a gain g (in 1/Scale EXP) and the leveling loop
AfterGain(u, g) ==
    LET r == LevelLoop(u.level, u.exp + g, <<>>) IN <<r.level, r.exp>>

\* the user document but for the given fields
Except(u, fields) == [f \in DOMAIN u \ fields |-> u[f]]

\* the date of the user's most recent activity (the user has one)
LastActivityDate == SetMax(ActivityDates(activities, user.id))
HasActivity == ActivityDates(activities, user.id) # {}

\* C1: in every reachable persisted user state, exp is strictly less than the
\* EXP required for the user's current level.
C1_ExpBelowThreshold ==
    user.exp < calculate_exp_for_next_level(user.level) * Scale

\* C2: a claim of a completed, unclaimed instance that succeeds adds exactly its
\* reward (through the leveling loop) and records the identifier; every claim
\* request for an identifier already in claimed_challenges is rejected and
\* leaves the user document unchanged; so no identifier is ever recorded twice.
C2_ClaimOnce ==
    [][\A cid \in ClaimIds :
          (resp' \in ClaimOutcomes /\ ClaimChallenge(cid)) =>
             /\ cid \in Range(user.claimed_challenges) =>
                   /\ user' = user
                   /\ resp' \in {"claim_not_found", "claim_not_completed", "claim_already"}
             /\ resp' = "claim_ok" =>
                   /\ user'.claimed_challenges = Append(user.claimed_challenges, cid)
                   /\ <<user'.level, user'.exp>> =
                         AfterGain(user, TemplateOf(cid).reward_exp * Scale)
             /\ \A i, j \in DOMAIN user'.claimed_challenges :
                   user'.claimed_challenges[i] = user'.claimed_challenges[j] => i = j]_vars

C2_Witness ==
    /\ resp = "claim_already"
    /\ Len(user.claimed_challenges) = 1

\* C3: two dates of one Monday-Sunday week derive the same identifier for a
\* weekly template, and two dates of one calendar month derive the same
\* identifier for a monthly template.
C3_SamePeriodSameId ==
    probe.ids1 # <<>> =>
       /\ (probe.d1 - Weekday(probe.d1) = probe.d2 - Weekday(probe.d2)) =>
             \A i \in 1..4 : probe.ids1[i] = probe.ids2[i]
       /\ (Year(probe.d1) = Year(probe.d2) /\ Month(probe.d1) = Month(probe.d2)) =>
             \A i \in 5..8 : probe.ids1[i] = probe.ids2[i]

\* C4: two dates of different Monday-Sunday weeks derive different identifiers
\* for a weekly template, and two dates of different year-months derive
\* different identifiers for a monthly template.
C4_OtherPeriodOtherId ==
    probe.ids1 # <<>> =>
       /\ (probe.d1 - Weekday(probe.d1) # probe.d2 - Weekday(probe.d2)) =>
             \A i \in 1..4 : probe.ids1[i] # probe.ids2[i]
       /\ (Year(probe.d1) # Year(probe.d2) \/ Month(probe.d1) # Month(probe.d2)) =>
             \A i \in 5..8 : probe.ids1[i] # probe.ids2[i]

\* C5: in every step, the claimed list changes exactly when a claim request
\* changes level/exp, and then one identifier is appended and level/exp are
\* those of its reward; a claim whose write fails changes neither.
C5_ClaimAtomic ==
    [][LET rewarded == /\ resp' \in ClaimOutcomes
                       /\ <<user'.level, user'.exp>> # <<user.level, user.exp>>
           recorded == user'.claimed_challenges # user.claimed_challenges
       IN  /\ rewarded <=> recorded
           /\ recorded =>
                 \E cid \in ClaimIds :
                    /\ user'.claimed_challenges = Append(user.claimed_challenges, cid)
                    /\ <<user'.level, user'.exp>> =
                          AfterGain(user, TemplateOf(cid).reward_exp * Scale)
           /\ resp' = "claim_error" => user' = user
           /\ resp' = "claim_ok" => recorded]_vars

C5_Witness ==
    /\ resp = "claim_ok"
    /\ user.claimed_challenges # <<>>
    /\ user.level > 1

\* the instance of today's period that cid names has raw progress below target
BelowTarget(cid) ==
    LET ids == ChallengeIds(today)
        t   == today
        ws  == t - Weekday(t)
        acts(i) == IF i <= 4
                   THEN {a \in ActivitiesOf(activities, user.id) : ws <= a.date /\ a.date <= ws + 6}
                   ELSE {a \in ActivitiesOf(activities, user.id) :
                            Year(a.date) = Year(t) /\ Month(a.date) = Month(t) /\ a.date <= t}
    IN  \E i \in DOMAIN ids :
           /\ ids[i] = cid
           /\ Progress(AllTemplates[i], acts(i),
                       calculate_streak(activities, user.id, t, TRUE))
                 < TargetOf(AllTemplates[i])

\* C6: a claim request for an instance whose raw progress is below its target
\* is rejected and leaves exp, level and claimed_challenges unchanged.
C6_IncompleteRejected ==
    [][\A cid \in ClaimIds :
          (resp' \in ClaimOutcomes /\ BelowTarget(cid) /\ ClaimChallenge(cid)) =>
             /\ resp' \in {"claim_not_completed"}
             /\ user' = user]_vars

C6_Witness ==
    /\ resp = "claim_not_completed"
    /\ HasActivity

PenaltyOutcomes ==
    {"penalty_skipped", "penalty_query_failed", "penalty_stamped", "penalty_applied",
     "penalty_error"}

\* C7: once last_penalty_date is today's date, a further penalty evaluation on
\* that day changes no field of the user.
C7_PenaltyOncePerDay ==
    [][(resp' \in PenaltyOutcomes /\ Dashboard /\ user.last_penalty_date = IsoFormat(today))
          => (user' = user /\ resp' = "penalty_skipped")]_vars

\* a second evaluation on a day on which a penalty would otherwise apply
C7_Witness ==
    /\ resp = "penalty_skipped"
    /\ user.exp > 0
    /\ HasActivity
    /\ today - LastActivityDate > 1

\* C8: when no penalty was evaluated today and the last activity is d days old
\* with d - 1 > 0, an evaluation (whose storage calls succeed) sets exp to
\* max(0, exp - exp * 0.05 * min(d - 1, 7)) and last_penalty_date to today.
C8_PenaltyAmount ==
    [][(/\ resp' \in PenaltyOutcomes /\ Dashboard /\ faults' = faults
        /\ user.last_penalty_date # IsoFormat(today)
        /\ HasActivity
        /\ today - LastActivityDate - 1 > 0)
          => LET d       == today - LastActivityDate
                 days    == IF d - 1 < 7 THEN d - 1 ELSE 7
                 penalty == (user.exp * 5 * days) \div 100
             IN  /\ user'.exp = (IF user.exp - penalty > 0 THEN user.exp - penalty ELSE 0)
                 /\ user'.last_penalty_date = IsoFormat(today)
                 /\ (user.exp = 1000 * Scale /\ d = 3) => user'.exp = 900 * Scale]_vars

\* a penalty applied for more than 7 inactive days
C8_Witness ==
    /\ resp = "penalty_applied"
    /\ user.last_penalty_date = IsoFormat(today)
    /\ today - LastActivityDate - 1 > 7

\* C9: with no activity at all, or a last activity of today or yesterday, a
\* penalty evaluation changes nothing but last_penalty_date, which it sets to
\* today when its storage calls succeed.
C9_NoPenaltyOnlyStamp ==
    [][(/\ resp' \in PenaltyOutcomes /\ Dashboard
        /\ (~HasActivity \/ today - LastActivityDate <= 1))
          => /\ Except(user', {"last_penalty_date"}) = Except(user, {"last_penalty_date"})
             /\ user'.last_penalty_date \in {user.last_penalty_date, IsoFormat(today)}
             /\ faults' = faults => user'.last_penalty_date = IsoFormat(today)]_vars

\* an evaluation that stamped the date of a user with EXP, active yesterday
C9_Witness ==
    /\ resp = "penalty_stamped"
    /\ user.exp > 0
    /\ HasActivity
    /\ today - LastActivityDate = 1

\* C10: a penalty evaluation never changes the level: it writes only exp and
\* last_penalty_date.
C10_PenaltyKeepsLevel ==
    [][(resp' \in PenaltyOutcomes /\ Dashboard)
          => /\ user'.level = user.level
             /\ Except(user', {"exp", "last_penalty_date"})
                   = Except(user, {"exp", "last_penalty_date"})]_vars

\* a penalty applied to a user above level 1
C10_Witness ==
    /\ resp = "penalty_applied"
    /\ user.level > 1
    /\ user.last_penalty_date = IsoFormat(today)

-----------------------------------------------------------------------------
(* Leveling on EXP gains *)

\* a step in which an activity document was inserted and the profile updated
Submitted == resp' \in {"add_ok", "api_201"} /\ activities' # activities /\ user' # user

\* a step that ended a successful claim
Claimed == resp' = "claim_ok" /\ user'.claimed_challenges # user.claimed_challenges

\* the EXP gain of a Submitted step (the exp_gained of the inserted document) or
\* of a Claimed step (the reward of the identifier appended)
GainOfStep ==
    IF activities' # activities
    THEN (CHOOSE a \in activities' \ activities : TRUE).exp_gained
    ELSE TemplateOf(user'.claimed_challenges[Len(user'.claimed_challenges)]).reward_exp * Scale

RECURSIVE ThresholdSum(_, _)
\* sum of the thresholds of the levels from..(to - 1), in 1/Scale EXP
ThresholdSum(from, to) ==
    IF from >= to THEN 0
    ELSE calculate_exp_for_next_level(from) * Scale + ThresholdSum(from + 1, to)

\* C11: a gain g applied by a submission or a claim to a user at (L, e) with e
\* below the threshold of L ends at (L', e') with L' >= L, 0 <= e' < threshold
\* of L', and e + g = e' + the thresholds of L..L'-1; level 1, exp 95, gain 10
\* gives level 2, exp 5.
C11_LevelLoopArithmetic ==
    [][((Submitted \/ Claimed)
         /\ user.exp < calculate_exp_for_next_level(user.level) * Scale)
          => /\ user'.level >= user.level
             /\ 0 <= user'.exp
             /\ user'.exp < calculate_exp_for_next_level(user'.level) * Scale
             /\ user.exp + GainOfStep = user'.exp + ThresholdSum(user.level, user'.level)
             /\ (user.level = 1 /\ user.exp = 95 * Scale /\ GainOfStep = 10 * Scale)
                   => (user'.level = 2 /\ user'.exp = 5 * Scale)]_vars

\* a submission that took the user up more than one level
C11_Witness ==
    /\ resp = "add_ok"
    /\ user.level >= probe.level + 2
    /\ Cardinality(activities) = 1
    /\ out.flashes # <<>>

\* the levels a response names: one per level-up flash message of the web flow;
\* for the API body, new_level when leveled_up is set
LevelsReported(o) ==
    Range(o.flashes) \cup {o.json[i].new_level : i \in {j \in DOMAIN o.json : o.json[j].leveled_up}}

\* C12: a submission (web or API) that crosses k >= 1 thresholds reports each of
\* the k levels reached to its caller.
C12_EachLevelReported ==
    [][(Submitted /\ user'.level > user.level)
          => LevelsReported(out') = (user.level + 1)..user'.level]_vars

-----------------------------------------------------------------------------
(* Edits and deletions *)

\* the activity document with the given id (there is one)
DocOf(acts, id) == CHOOSE a \in acts : a.id = id

\* C13: an edit sets exp to max(0, exp + (new exp_gained - old exp_gained)) and
\* a deletion sets it to max(0, exp - exp_gained); neither changes the level.
C13_EditDeleteNoLeveling ==
    [][/\ \A id \in ActivityIds, f \in LevelWebForms :
             (resp' = "edit_ok" /\ EditActivity(id, f)) =>
                LET delta == DocOf(activities', id).exp_gained - DocOf(activities, id).exp_gained
                IN  /\ user'.exp = (IF user.exp + delta > 0 THEN user.exp + delta ELSE 0)
                    /\ user'.level = user.level
       /\ \A id \in ActivityIds :
             (resp' = "delete_ok" /\ DeleteActivity(id)) =>
                LET lost == DocOf(activities, id).exp_gained
                IN  /\ user'.exp = (IF user.exp - lost > 0 THEN user.exp - lost ELSE 0)
                    /\ user'.level = user.level]_vars

\* an edit that left exp at or above the threshold of the unchanged level
C13_Witness ==
    /\ resp = "edit_ok"
    /\ user.exp >= calculate_exp_for_next_level(user.level) * Scale

\* C14: after one activity was created and then deleted, with nothing in
\* between, the user's exp is its value before the creation, whatever the
\* starting level and exp and whatever the gain.
C14_CreateDeleteRoundTrip ==
    (resp = "delete_ok" /\ nextId = 2 /\ activities = {}) => user.exp = probe.exp

\* the attributes of an activity document that a form sets
Attributes(a) ==
    <<a.exercise_type, a.duration, a.intensity, a.has_evidence, a.weight_recorded>>

\* C15: an edit stores the exp_gained that creating an activity with the same
\* attributes would store for the same user (weight-change modifier included),
\* and an edit that changes no attribute changes neither the activity's
\* exp_gained nor the user's exp.
C15_EditRecomputesAsCreate ==
    [][\A id \in ActivityIds, f \in LevelWebForms :
          (resp' = "edit_ok" /\ EditActivity(id, f)) =>
             /\ DocOf(activities', id).exp_gained = SubmissionGain(user, f)
             /\ Attributes(DocOf(activities', id)) = Attributes(DocOf(activities, id)) =>
                   /\ DocOf(activities', id).exp_gained = DocOf(activities, id).exp_gained
                   /\ user'.exp = user.exp]_vars

-----------------------------------------------------------------------------
(* Streak *)

\* the length of the maximal run of consecutive dates of S that ends at end
RunEndingAt(S, end) ==
    CHOOSE n \in 0..Cardinality(S) :
        /\ \A i \in 0..(n - 1) : end - i \in S
        /\ end - n \notin S

\* C16: calculate_streak returns 0 if there is no activity date or the latest
\* is more than 1 day before today, and otherwise the length of the maximal run
\* of consecutive dates ending at today (if today has an activity) or at the
\* latest date; {today, today-1, today-2} gives 3 and {today-2} gives 0.
C16_StreakValue ==
    (probe # <<>> /\ probe[1].ok) =>
       LET S == ActivityDates(activities, user.id)
       IN  /\ probe[1].streak =
                 (IF S = {} \/ \A d \in S : d < today - 1 THEN 0
                  ELSE IF today \in S THEN RunEndingAt(S, today)
                  ELSE RunEndingAt(S, SetMax(S)))
           /\ S = {today, today - 1, today - 2} => probe[1].streak = 3
           /\ S = {today - 2} => probe[1].streak = 0

\* a streak of two days that ended yesterday, counted today
C16_Witness ==
    /\ probe # <<>>
    /\ probe[1].ok
    /\ probe[1].streak = 2
    /\ today \notin ActivityDates(activities, user.id)

-----------------------------------------------------------------------------
(* Threshold and gain rule *)

\* C17: calculate_exp_for_next_level(level) is floor(100 * level^1.5), that is
\* the integer t with t^2 <= 10000 * level^3 < (t + 1)^2; level 1 gives 100,
\* level 5 gives 1118, level 10 gives 3162; and it is strictly increasing.
C17_ThresholdFormula ==
    Len(probe) = 2 =>
       LET l == probe[1]
           t == probe[2]
       IN  /\ t >= 0
           /\ t * t <= 10000 * l * l * l
           /\ 10000 * l * l * l < (t + 1) * (t + 1)
           /\ l = 1 => t = 100
           /\ l = 5 => t = 1118
           /\ l = 10 => t = 3162
           /\ l > 1 => calculate_exp_for_next_level(l - 1) < t

\* the threshold of level 10 computed
C17_Witness ==
    /\ Len(probe) = 2
    /\ probe[1] = 10
    /\ probe[2] = 3162

\* C18: calculate_exp_gain is duration * m * e * c, with m = 1, 1.5, 2 for
\* low, medium, high (1 for an unknown intensity), e = 1.2 with evidence, and
\* c = 1.3 exactly when the user's class has the exercise type in its
\* specialty; (60, medium, no evidence, no class) gives 90 and (60, high,
\* evidence, no class) gives 144.   (m, e, c in tenths; the gain in 1/Scale EXP)
C18_GainFormula ==
    Len(probe) = 2 =>
       LET a   == probe[1]
           m10 == IF a.intensity = "medium" THEN 15
                  ELSE IF a.intensity = "high" THEN 20 ELSE 10
           e10 == IF a.has_evidence THEN 12 ELSE 10
           c10 == IF /\ user.player_class # None
                     /\ a.exercise_type \in Specialty(user.player_class)
                  THEN 13 ELSE 10
       IN  /\ probe[2] = a.duration * m10 * e10 * c10 * (Scale \div 1000)
           /\ (a.duration = 60 /\ a.intensity = "medium" /\ ~a.has_evidence
                 /\ user.player_class = None) => probe[2] = 90 * Scale
           /\ (a.duration = 60 /\ a.intensity = "high" /\ a.has_evidence
                 /\ user.player_class = None) => probe[2] = 144 * Scale

\* the gain of a specialty exercise with evidence, for a user with a class
C18_Witness ==
    /\ Len(probe) = 2
    /\ user.player_class = "corredor"
    /\ probe[1].exercise_type = "Cardio"
    /\ probe[1].has_evidence
    /\ probe[1].intensity = "medium"
    /\ probe[2] = 140400

\* the document inserted by a step that inserts one
Inserted == CHOOSE a \in activities' \ activities : TRUE

\* C19: on a submission (web or API) by a user with a recorded weight, of an
\* activity that records a weight, the stored exp_gained is the base gain times
\* 1.1 if the new weight is lower than the user's, times 0.9 if higher, the base
\* gain if equal; and the user's weight becomes the recorded one.
C19_WeightModifier ==
    [][\A f \in LevelWebForms \cup LevelApiForms :
          (/\ Submitted
           /\ (resp' = "add_ok" /\ AddActivity(f)) \/ (resp' = "api_201" /\ ApiCreateActivity(f))
           /\ user.weight # NoWeight
           /\ f.weight # NoWeight)
             => LET base == calculate_exp_gain(f.duration, f.intensity, f.has_evidence,
                                               user, f.exercise_type)
                IN  /\ f.weight < user.weight => Inserted.exp_gained * 10 = base * 11
                    /\ f.weight > user.weight => Inserted.exp_gained * 10 = base * 9
                    /\ f.weight = user.weight => Inserted.exp_gained = base
                    /\ user'.weight = f.weight]_vars

\* an API submission at a lower weight: 10 EXP stored as 11
C19_Witness ==
    /\ resp = "api_201"
    /\ user.weight = 65
    /\ \E a \in activities : a.exp_gained = 11 * Scale /\ a.weight_recorded = 65

-----------------------------------------------------------------------------
(* Challenge progress *)

\* the raw progress of the i-th template of the list (weekly, then monthly)
\* over its window of today's activities
RawProgress(i) ==
    LET ws   == today - Weekday(today)
        acts == IF i <= Len(WEEKLY_CHALLENGE_TEMPLATES)
                THEN {a \in ActivitiesOf(activities, user.id) :
                         ws <= a.date /\ a.date <= ws + 6}
                ELSE {a \in ActivitiesOf(activities, user.id) :
                         Year(a.date) = Year(today) /\ Month(a.date) = Month(today)
                            /\ a.date <= today}
    IN  Progress(AllTemplates[i], acts, calculate_streak(activities, user.id, today, TRUE))

\* C20: for every instance of the derived list, progress is min(raw, target),
\* so 0 <= progress <= target, and completed holds exactly when raw >= target,
\* which is exactly when progress = target.
C20_ProgressClamped ==
    probe # <<>> =>
       \A i \in DOMAIN probe :
          LET raw == RawProgress(i)
              c   == probe[i]
          IN  /\ c.progress = (IF raw < c.target THEN raw ELSE c.target)
              /\ 0 <= c.progress /\ c.progress <= c.target
              /\ c.completed <=> raw >= c.target
              /\ c.completed <=> c.progress = c.target

\* a list with a weekly and a monthly instance whose raw progress is above target
C20_Witness ==
    /\ probe # <<>>
    /\ \E i \in 1..4 : RawProgress(i) > probe[i].target /\ probe[i].completed
    /\ \E i \in 5..8 : RawProgress(i) > probe[i].target /\ probe[i].completed
    /\ \E i \in 1..8 : RawProgress(i) < probe[i].target /\ ~probe[i].completed

\* a request field outside its domain: exercise type, intensity, duration
\* (1..1440), or a weight that is given and outside 10..500
InvalidField(f) ==
    \/ f.exercise_type \notin VALID_EXERCISE_TYPES
    \/ f.intensity \notin VALID_INTENSITIES
    \/ f.duration < 1 \/ f.duration > 1440
    \/ (f.weight # NoWeight /\ (f.weight < 10 \/ f.weight > 500))

\* C21: a web submission, a web edit of an own activity or an API submission
\* with an exercise type outside the valid set, an intensity outside
\* low/medium/high, a duration outside 1..1440 or a weight outside 10..500 is
\* rejected before any mutation: the user record and the activity collection
\* are the same after the request
C21_InvalidRejected ==
    [][\A f \in ValidationBodies :
          InvalidField(f) =>
              /\ AddActivity(f) => UNCHANGED <<user, activities>>
              /\ ApiCreateActivity(f) => UNCHANGED <<user, activities>>
              /\ \A id \in RequestIds : EditActivity(id, f) => UNCHANGED <<user, activities>>]_vars

\* the request names no stored document, or a document of another user
NotMine(activity_id) ==
    \/ GetActivity(activity_id) = {}
    \/ \E a \in GetActivity(activity_id) : a.user_id # user.id

\* C22: an edit or a delete that names a missing activity, or an activity whose
\* user_id is not the requesting user's, is rejected (not found / no
\* permission) and leaves the user record and the collection as they were
C22_NotMineRejected ==
    [][\A id \in RequestIds :
          (NotMine(id) /\ (DeleteActivity(id) \/ \E f \in ValidationForms : EditActivity(id, f)))
          => /\ UNCHANGED <<user, activities>>
             /\ resp' \in {"edit_not_found", "edit_forbidden",
                           "delete_not_found", "delete_forbidden"}]_vars

\* a delete of another user's document was refused, after an edit or a delete
\* of the user's own document went through, and the other user's document is
\* still stored
C22_Witness ==
    /\ resp = "delete_forbidden"
    /\ StoredDoc(ForeignId, Other) \in activities
    /\ StoredDoc(OwnId, Me) \notin activities

\* the responses that tell the caller the user record was not updated:
\* 'Actividad guardada pero hubo un error al actualizar tu perfil.' and
\* 'Actividad eliminada pero hubo un error al actualizar tu EXP.'
UserUpdateFailedOutcomes == {"add_profile_failed", "delete_exp_failed"}

\* C23: whenever a request's activity write (insert, update or delete) went
\* through and its user-record update raised, the response says that the
\* user/EXP update failed; it is never a plain success (web add, web edit, web
\* delete, API create)
C23_PartialFailureReported ==
    [][(activities' # activities /\ faults' > faults /\ user' = user)
       => resp' \in UserUpdateFailedOutcomes]_vars

\* C26: in every reachable state (after any sequence of submissions, edits,
\* deletions, claims and penalty evaluations, with or without storage
\* failures) the persisted level is an integer >= 1 and the persisted exp is
\* >= 0
C26_LevelAndExpBounds ==
    /\ user.level \in Int
    /\ user.level >= 1
    /\ user.exp >= 0

\* a delete whose exp_gained exceeded the exp left after a level-up: exp was
\* clamped at 0 above level 1
C26_Witness ==
    /\ resp = "delete_ok"
    /\ user.exp = 0
    /\ user.level > 1
    /\ activities = {}

\* the achievements and their thresholds: what is compared, and the least
\* value that unlocks
AchievementTable ==
    << <<"Primer Paso", "count", 1>>, <<"Dedicacion", "count", 10>>,
       <<"Consistente", "count", 50>>, <<"Maratonista", "count", 100>>,
       <<"Semana Perfecta", "streak", 7>>, <<"Mes Imparable", "streak", 30>>,
       <<"Guerrero", "level", 5>>, <<"Campeon", "level", 10>>, <<"Leyenda", "level", 25>> >>

\* the value of the call's arguments that row i of the table compares
Measured(i) ==
    CASE AchievementTable[i][2] = "count"  -> probe[1].total_activities
      [] AchievementTable[i][2] = "streak" -> probe[1].streak
      [] AchievementTable[i][2] = "level"  -> user.level

\* C27: get_achievements(user, total_activities, streak) marks as unlocked
\* exactly the achievements whose threshold is met (activity count >= 1, 10,
\* 50, 100; streak >= 7, 30; level >= 5, 10, 25); the result is determined by
\* these three values alone, and the call persists nothing
C27_AchievementsByThreshold ==
    /\ [](Len(probe) = 2 =>
            /\ Len(probe[2]) = Len(AchievementTable)
            /\ \A i \in 1..Len(AchievementTable) :
                  /\ probe[2][i].name = AchievementTable[i][1]
                  /\ probe[2][i].unlocked = (Measured(i) >= AchievementTable[i][3]))
    /\ [][ComputeAchievements => UNCHANGED <<user, activities>>]_vars

\* ten activities, a streak of exactly 7 and level 9: the first two count
\* achievements, the first streak achievement and the first level achievement,
\* and not the others
C27_Witness ==
    /\ Len(probe) = 2
    /\ probe[1].total_activities = 10
    /\ probe[1].streak = 7
    /\ user.level = 9
    /\ {i \in 1..Len(probe[2]) : probe[2][i].unlocked} = {1, 2, 5, 7}

\* C28: the leveling loop terminates for every starting level >= 1 and every
\* non-negative exp: the loop is eventually left; each iteration takes a
\* positive threshold off exp, which stays >= 0, and raises the level by one;
\* and the values it is left with are those of LevelLoop
C28_LoopTerminates ==
    /\ <>(probe.done)
    /\ [][LoopIterate => /\ probe'.exp < probe.exp
                         /\ probe'.exp >= 0
                         /\ probe'.level = probe.level + 1]_vars
    /\ [](probe.done =>
            LET r == LevelLoop(probe.level0, probe.exp0, <<>>)
            IN  probe.level = r.level /\ probe.exp = r.exp)

\* the loop was left after ten or more iterations
C28_Witness ==
    /\ probe.done
    /\ probe.level >= probe.level0 + 10
    /\ probe.exp < calculate_exp_for_next_level(probe.level) * Scale

\* the times of the allowed calls (returned False) with key k, in call order
AllowedTimes(k) ==
    LET Allowed(c) == c.key = k /\ ~c.limited
        allowed    == SelectSeq(probe.calls, Allowed)
    IN  [i \in 1..Len(allowed) |-> allowed[i].t]

\* the allowed calls with the key of call i that came before it and are less
\* than window_seconds old at call i
RecentAllowed(i) ==
    {j \in 1..(i - 1) : /\ probe.calls[j].key = probe.calls[i].key
                        /\ ~probe.calls[j].limited
                        /\ probe.calls[i].t - probe.calls[j].t < probe.window_seconds}

\* C30: for every key and calls at non-decreasing times, any max_attempts + 1
\* allowed calls span at least window_seconds; a rejected call is not recorded
\* (the store of a key holds times of allowed calls of that key only, each
\* once); and calls with another key never affect the outcome (a call is
\* rejected exactly when max_attempts allowed calls of its own key are less
\* than window_seconds old, and it leaves the other keys' entries alone)
C30_RateLimit ==
    /\ [](\A k \in RateKeys :
            LET a == AllowedTimes(k)
            IN  /\ \A i \in 1..Len(a) :
                      i + probe.max_attempts <= Len(a)
                      => a[i + probe.max_attempts] - a[i] >= probe.window_seconds
                /\ Len(limiter.store[k]) <= Len(a)
                /\ \A n \in 1..Len(limiter.store[k]) :
                      limiter.store[k][n] = a[Len(a) - Len(limiter.store[k]) + n])
    /\ [](\A i \in 1..Len(probe.calls) :
            probe.calls[i].limited = (Cardinality(RecentAllowed(i)) >= probe.max_attempts))
    /\ [][\A k \in RateKeys :
            RateCall(k) => \A j \in RateKeys \ {k} : limiter'.store[j] = limiter.store[j]]_vars

\* with max_attempts 2 and a window of 3 s: a third call of a key was rejected
\* inside the window and a later one allowed again, while the other key was
\* allowed in between
C30_Witness ==
    /\ probe.max_attempts = 2
    /\ \E k \in RateKeys : \E j \in RateKeys \ {k} :
          /\ Len(AllowedTimes(k)) = 3
          /\ Len(AllowedTimes(j)) >= 1
          /\ \E i \in 1..Len(probe.calls) : probe.calls[i].key = k /\ probe.calls[i].limited

BothDone == \A r \in Requests : inflight[r].pc = "done"

\* the documents inserted by the two requests
InsertedDocs == activities \ {PastActivity(0)}

\* level and exp of the starting record after the gains of the documents D
LevelAndExpAfter(D) ==
    LET r == LevelLoop(probe[1].level, probe[1].exp + SumOver(D, "exp_gained"), <<>>)
    IN  <<r.level, r.exp>>

\* C24: two concurrent submissions (web or API) of one user can lose an
\* update. When both have answered, both activities are stored; the persisted
\* level and exp reflect both gains when one request loaded the user after the
\* other had finished, and otherwise (the requests overlapped) they reflect
\* the gain of one of the two stored activities only
C24_LostUpdate ==
    (BothDone /\ \A r \in Requests : inflight[r].kind \in {"add", "api"})
    => /\ Cardinality(InsertedDocs) = 2
       /\ IF \E r \in Requests : inflight[r].after
          THEN <<user.level, user.exp>> = LevelAndExpAfter(InsertedDocs)
          ELSE \E a \in InsertedDocs : <<user.level, user.exp>> = LevelAndExpAfter({a})

\* the lost update: both submissions answered success, both activities are
\* stored, and the persisted level and exp are those of one gain alone, not of
\* both
C24_Witness ==
    /\ BothDone
    /\ \A r \in Requests : inflight[r].resp \in {"add_ok", "api_201"}
    /\ Cardinality(InsertedDocs) = 2
    /\ \E a \in InsertedDocs : <<user.level, user.exp>> = LevelAndExpAfter({a})
    /\ <<user.level, user.exp>> # LevelAndExpAfter(InsertedDocs)

\* C29: two concurrent claims of the same completed, unclaimed challenge, each
\* reading the user once, checking the guards on the record it read and
\* writing exp, level and the claimed list in one update. When both have
\* answered, the persisted record has gained the reward exactly once (level
\* and exp are those of the starting record plus one reward) and its claimed
\* list is the starting list with the id added once; at least one of the two
\* claims answered success
C29_ConcurrentClaimOnce ==
    (BothDone /\ \A r \in Requests : inflight[r].kind = "claim")
    => LET reward == TemplateOf(WeekClaimId).reward_exp * Scale
       IN  /\ <<user.level, user.exp>> = AfterGain(probe[1], reward)
           /\ user.claimed_challenges = Append(probe[1].claimed_challenges, WeekClaimId)
           /\ \E r \in Requests : inflight[r].resp = "claim_ok"
           /\ \A r \in Requests : inflight[r].resp \in {"claim_ok", "claim_already"}

\* both claims passed the guards on the record they had read and both answered
\* success; the reward was gained once
C29_Witness ==
    /\ BothDone
    /\ \A r \in Requests : inflight[r].kind = "claim" /\ inflight[r].resp = "claim_ok"
    /\ ~(\E r \in Requests : inflight[r].after)
    /\ user.claimed_challenges = <<WeekClaimId>>
    /\ <<user.level, user.exp>> =
           AfterGain(probe[1], TemplateOf(WeekClaimId).reward_exp * Scale)

====
